---- MODULE Spec2Model ----
(***************************************************************************)
(* Model of src/main.rs: a terminal download monitor.                      *)
(*                                                                         *)
(*   main            registers and spawns the download tasks, runs the     *)
(*                   installer, then runs the control loop `run`.          *)
(*   download_with_progress   one spawned task per download; sends         *)
(*                   DownloadUpdate / DownloadDone on the shared channel,  *)
(*                   its caller sends DownloadError when it returns Err.   *)
(*   input_handling  a thread sending Input / Resize / Tick.               *)
(*   run             the single consumer of the channel.                   *)
(*                                                                         *)
(* Environment assumptions: terminal calls (draw, insert_before,           *)
(* autoresize) and the spawn of the installer process succeed, so the `?`  *)
(* on them never returns early.  Wall-clock values (started_at, elapsed    *)
(* milliseconds) are not part of the state.  `downloaded` is a u64 byte    *)
(* count of data already written to a file; it stays far below 2^64, so    *)
(* the addition at line 83 is modelled without wrap-around.                *)
(***************************************************************************)
EXTENDS Integers, Sequences, FiniteSets, TLC

----------------------------------------------------------------------------
(* Bounds of the model *)

\* most chunks the response streams deliver in one run, all tasks together
MaxChunks == 2
\* a sender that finds this many events waiting in the channel takes its step
\* later (the channel of the program is unbounded)
MaxQueue == 1
\* most terminal events waiting to be read
MaxPending == 2
\* the longest the input thread goes without a tick check, in units of 100 ms
MaxElapsed == 3

----------------------------------------------------------------------------
(* Program data *)

\* main.rs:322-326; a file name is kept as stem and extension so that
\* ends_with(".deb") can be computed
download_tasks ==
    << [id |-> 0, filename |-> [stem |-> "bmon", ext |-> "deb"]],
       [id |-> 1, filename |-> [stem |-> "sample1", ext |-> "bin"]],
       [id |-> 2, filename |-> [stem |-> "sample2", ext |-> "bin"]] >>

NumTasks == Len(download_tasks)

Ids == {download_tasks[k].id : k \in 1..NumTasks}

IndexOf(id) == CHOOSE k \in 1..NumTasks : download_tasks[k].id = id
FilenameOf(id) == download_tasks[IndexOf(id)].filename

\* filename.ends_with(".deb"), main.rs:361
EndsWithDeb(filename) == filename.ext = "deb"

\* content_length().unwrap_or(0): 0 when the server reports no length
ContentLengths == {0, 1}

\* chunk.len() of the chunks a response stream yields
ChunkLens == {0, 1}

\* keys the terminal can deliver: the quit key and some other key
Keys == {"q", "x"}

\* messages of the errors a download can return
RequestErrors == {"failed"}
StreamErrors == {"failed"}

----------------------------------------------------------------------------
(* Events, main.rs:22-30 *)

Input(key) == [type |-> "Input", key |-> key]
Tick == [type |-> "Tick"]
Resize == [type |-> "Resize"]
DownloadUpdate(id, downloaded, total) ==
    [type |-> "DownloadUpdate", id |-> id, downloaded |-> downloaded, total |-> total]
DownloadDone(id) == [type |-> "DownloadDone", id |-> id]
DownloadError(id, msg) == [type |-> "DownloadError", id |-> id, msg |-> msg]

VARIABLES
    details_height, \* the height of the area render has for the details
    pending,      \* terminal events event::read has not taken yet, oldest first
    elapsed,      \* last_tick.elapsed(), in units of 100 ms
    mainpc,       \* where main is: "spawn", "install", "run", "returned"
    nextTask,     \* index into download_tasks of the next task main starts
    spawns,       \* id -> number of tokio::spawn calls made for it
    installer,    \* the installer invocations made so far, each the list of files
    in_progress,  \* Downloads.in_progress: id -> DownloadInProgress
    completed,    \* Downloads.completed
    errors,       \* Downloads.errors
    chan,         \* the mpsc channel: events sent and not yet received
    rxAlive,      \* the Receiver has not been dropped
    looppc,       \* where run is: "idle", "enter", "recv", "exited"
    frame,        \* what the last terminal.draw rendered
    notes,        \* lines inserted with terminal.insert_before, in order
    wpc,          \* id -> where the download task is
    wdownloaded,  \* id -> download_with_progress's `downloaded`
    wtotal,       \* id -> download_with_progress's `total_size`
    nchunks,      \* chunks delivered so far, all tasks together
    inputpc       \* the input thread: "running", "panicked" or "ended"

vars == << details_height, pending, elapsed, mainpc, nextTask, spawns,
           installer, in_progress, completed, errors,
           chan, rxAlive, looppc, frame, notes, wpc, wdownloaded,
           wtotal, nchunks, inputpc >>

terminalVars == << details_height, pending, elapsed >>
mainVars == << terminalVars, mainpc, nextTask, spawns, installer >>
downloadsVars == << in_progress, completed, errors >>
loopVars == << looppc, frame, notes >>
workerVars == << wpc, wdownloaded, wtotal, nchunks >>

----------------------------------------------------------------------------
(* Helpers *)

\* the entry is looked up but left in the map
MapKeep(m, id) == m

\* BTreeMap::remove
MapRemove(m, id) == [k \in DOMAIN m \ {id} |-> m[k]]

\* the map is replaced by one holding the new entry only
MapReplace(m, id, v) == [k \in {id} |-> v]

\* BTreeMap::insert
MapInsert(m, id, v) == [k \in DOMAIN m \cup {id} |-> IF k = id THEN v ELSE m[k]]

\* mpsc::Sender::send: the event is queued while the Receiver lives,
\* otherwise send returns Err and nothing is queued
Send(ch, alive, e) == IF alive THEN Append(ch, e) ELSE ch

\* fewer than MaxQueue events wait in the channel
Room == Len(chan) < MaxQueue

\* DownloadInProgress::progress, main.rs:41-47, as a whole percentage
progress(d) == IF d.total = 0 THEN 0 ELSE (d.downloaded * 100) \div d.total

\* main.rs:313: the inline viewport main asks for
ViewportHeight == 15
\* main.rs:206-210: the layout of render
LayoutMargin == 1
OverallHeight == 2
HeaderHeight == 3
\* main.rs:255: the rows the loop over the downloads keeps free
DetailsReserve == 2
\* main.rs:305: the rows one download takes
DetailsStep == 3

\* the height of details_area on a terminal that gives the whole viewport,
\* and on a terminal of no more rows than the two margins
FullDetails == ViewportHeight - 2 * LayoutMargin - OverallHeight - HeaderHeight
NoDetails == 0

\* 253-257, 305: how many downloads the loop draws before y_offset reaches
\* details_area.height.saturating_sub(2)
Fits(height) ==
    LET limit == IF height > DetailsReserve THEN height - DetailsReserve ELSE 0
    IN  (limit + DetailsStep - 1) \div DetailsStep

\* 254: the BTreeMap is walked in the order of the ids
Shown(inp, height) ==
    {id \in DOMAIN inp :
        Cardinality({other \in DOMAIN inp : other < id}) < Fits(height)}

\* what render shows: the overall gauge, main.rs:218-219, and one gauge for
\* each download in progress that fits, 253-305
Snapshot(inp, comp) ==
    [completed_downloads |-> Len(comp),
     total_downloads |-> Len(comp) + Cardinality(DOMAIN inp),
     gauges |-> [id \in Shown(inp, details_height) |-> progress(inp[id])]]

\* the state after construction, on a terminal whose details area has
\* `height` rows
Start(height) ==
    /\ details_height = height
    /\ pending = << >>
    /\ elapsed = 0
    /\ mainpc = "spawn"
    /\ nextTask = 1
    /\ spawns = [i \in Ids |-> 0]
    /\ installer = << >>
    /\ in_progress = << >>
    /\ completed = << >>
    /\ errors = << >>
    /\ chan = << >>
    /\ rxAlive = TRUE
    /\ looppc = "idle"
    /\ frame = [completed_downloads |-> 0, total_downloads |-> 0,
                gauges |-> << >>]
    /\ notes = << >>
    /\ wpc = [i \in Ids |-> "unspawned"]
    /\ wdownloaded = [i \in Ids |-> 0]
    /\ wtotal = [i \in Ids |-> 0]
    /\ nchunks = 0
    /\ inputpc = "running"

\* the terminal gives the whole inline viewport
Init == Start(FullDetails)

\* the terminal has no row for the details
InitNoDetails == Start(NoDetails)

----------------------------------------------------------------------------
(* main, main.rs:310-390 *)

\* one iteration of the for loop at 329-351: register the task, then spawn it
MainStartTask ==
    /\ mainpc = "spawn"
    /\ nextTask <= NumTasks
    /\ LET t == download_tasks[nextTask] IN
        /\ in_progress' = MapInsert(in_progress, t.id,
               [id |-> t.id, name |-> t.filename, downloaded |-> 0, total |-> 0])
        /\ spawns' = [spawns EXCEPT ![t.id] = @ + 1]
        /\ wpc' = [wpc EXCEPT ![t.id] = "request"]
    /\ nextTask' = nextTask + 1
    /\ mainpc' = IF nextTask = NumTasks THEN "install" ELSE "spawn"
    /\ UNCHANGED << terminalVars, installer, completed, errors, chan, rxAlive, loopVars,
                    wdownloaded, wtotal, nchunks, inputpc >>

\* the .deb files of download_tasks, main.rs:358-367
deb_files ==
    SelectSeq([k \in 1..NumTasks |-> download_tasks[k].filename], EndsWithDeb)

\* main.rs:353-386: restore the terminal, run `sudo dpkg -i` on the .deb
\* files when there are any (its exit status only selects a message), then
\* enter run
MainInstall ==
    /\ mainpc = "install"
    /\ installer' = IF deb_files # << >> THEN Append(installer, deb_files)
                                          ELSE installer
    /\ mainpc' = "run"
    /\ looppc' = "enter"
    /\ UNCHANGED << terminalVars, nextTask, spawns, downloadsVars, chan,
                    rxAlive, frame, notes, workerVars, inputpc >>

\* a task the runtime drops: a finished one keeps its outcome, an unfinished
\* one is cancelled and its locals are gone
Shutdown(pc) == IF pc \in {"request", "stream"} THEN "cancelled" ELSE pc

\* main.rs:386-389: run has returned and dropped the Receiver; main restores
\* the terminal and returns, which shuts the runtime down and ends the process
MainReturn ==
    /\ mainpc = "run"
    /\ looppc = "exited"
    /\ mainpc' = "returned"
    /\ wpc' = [i \in Ids |-> Shutdown(wpc[i])]
    /\ wdownloaded' = [i \in Ids |-> 0]
    /\ wtotal' = [i \in Ids |-> 0]
    /\ inputpc' = IF inputpc = "running" THEN "ended" ELSE inputpc
    /\ UNCHANGED << terminalVars, nextTask, spawns, installer, downloadsVars,
                    chan, rxAlive, loopVars, nchunks >>

----------------------------------------------------------------------------
(* download_with_progress and the task wrapping it, main.rs:66-93, 346-350 *)

\* the runtime polls spawned tasks until main returns
RuntimeAlive == mainpc # "returned"

\* the task reports its outcome and carries on as if it had not returned
FinishCarriesOn(i, pc) == UNCHANGED << wpc, wdownloaded, wtotal >>

\* the task's state once it has returned: its locals are dropped
Finish(i, pc) ==
    /\ wpc' = [wpc EXCEPT ![i] = pc]
    /\ wdownloaded' = [wdownloaded EXCEPT ![i] = 0]
    /\ wtotal' = [wtotal EXCEPT ![i] = 0]

\* 72-78: the request is answered and the file created
WorkerResponse(i) ==
    /\ RuntimeAlive
    /\ wpc[i] = "request"
    /\ \E total \in ContentLengths : wtotal' = [wtotal EXCEPT ![i] = total]
    /\ wpc' = [wpc EXCEPT ![i] = "stream"]
    /\ UNCHANGED << mainVars, downloadsVars, chan, rxAlive, loopVars,
                    wdownloaded, nchunks, inputpc >>

\* 73 or 76 returns Err; 347-349 reports it as DownloadError
WorkerRequestErr(i) ==
    /\ RuntimeAlive
    /\ wpc[i] = "request"
    /\ Room
    /\ \E msg \in RequestErrors : chan' = Send(chan, rxAlive, DownloadError(i, msg))
    /\ Finish(i, "failed")
    /\ UNCHANGED << mainVars, downloadsVars, rxAlive, loopVars, nchunks, inputpc >>

\* the count is overwritten with the chunk's length instead of increased
ChunkOnly(downloaded, len) == len

\* 83: the byte count after a chunk of `len` bytes
AddChunk(downloaded, len) == downloaded + len

\* 80-88: one chunk arrives and is written; the new count is sent.  When the
\* Receiver is gone, send returns Err, the task returns it, and the
\* DownloadError sent for it at 348 is lost as well
WorkerChunk(i) ==
    /\ RuntimeAlive
    /\ wpc[i] = "stream"
    /\ nchunks < MaxChunks
    /\ Room
    /\ nchunks' = nchunks + 1
    /\ \E len \in ChunkLens :
        LET d == AddChunk(wdownloaded[i], len) IN
        /\ chan' = Send(chan, rxAlive, DownloadUpdate(i, d, wtotal[i]))
        /\ IF rxAlive
           THEN /\ wdownloaded' = [wdownloaded EXCEPT ![i] = d]
                /\ UNCHANGED << wpc, wtotal >>
           ELSE Finish(i, "failed")
    /\ UNCHANGED << mainVars, downloadsVars, rxAlive, loopVars, inputpc >>

\* 81-82: the stream yields an error, or the write fails; 347-349 reports it
WorkerChunkErr(i) ==
    /\ RuntimeAlive
    /\ wpc[i] = "stream"
    /\ Room
    /\ \E msg \in StreamErrors : chan' = Send(chan, rxAlive, DownloadError(i, msg))
    /\ Finish(i, "failed")
    /\ UNCHANGED << mainVars, downloadsVars, rxAlive, loopVars, nchunks, inputpc >>

\* 80, 91-92: the stream ends and DownloadDone is sent
WorkerEnd(i) ==
    /\ RuntimeAlive
    /\ wpc[i] = "stream"
    /\ Room
    /\ chan' = Send(chan, rxAlive, DownloadDone(i))
    /\ Finish(i, IF rxAlive THEN "done" ELSE "failed")
    /\ UNCHANGED << mainVars, downloadsVars, rxAlive, loopVars, nchunks, inputpc >>

Worker(i) ==
    \/ WorkerResponse(i)
    \/ WorkerRequestErr(i)
    \/ WorkerChunk(i)
    \/ WorkerChunkErr(i)
    \/ WorkerEnd(i)

----------------------------------------------------------------------------
(* input_handling, main.rs:95-114 *)

\* what event::poll / event::read deliver in one iteration
PollResults == {"none", "resize", "other"} \cup Keys

\* 101-107: the event forwarded for a poll result
Forwarded(r) ==
    IF r \in Keys THEN << Input(r) >>
    ELSE IF r = "resize" THEN << Resize >>
    ELSE << >>

\* 101-111: one pass of the thread's loop sends the event read, if any, then
\* Tick when tick_rate has elapsed (`due`).  Sending to a dropped Receiver
\* panics the thread (unwrap)
Iteration(r, due) ==
    LET evs == Forwarded(r) \o (IF due THEN << Tick >> ELSE << >>) IN
    /\ evs # << >> => Room
    /\ IF evs # << >> /\ ~rxAlive
       THEN /\ inputpc' = "panicked"
            /\ chan' = chan
       ELSE /\ inputpc' = inputpc
            /\ chan' = chan \o evs

\* one pass of the loop, with the terminal and the clock left out: any poll
\* result, the tick due or not
InputIteration ==
    /\ inputpc = "running"
    /\ \E r \in PollResults, due \in BOOLEAN : Iteration(r, due)
    /\ UNCHANGED << mainVars, downloadsVars, rxAlive, loopVars, workerVars >>

\* 96: tick_rate, in units of 100 ms
TickRate == 2

\* the Tick is sent whether or not tick_rate has elapsed
TickDueAlways(time) == TRUE

\* 108: last_tick.elapsed() >= tick_rate
TickDue(time) == time >= TickRate

\* time passes
Elapse ==
    /\ elapsed < MaxElapsed
    /\ elapsed' = elapsed + 1
    /\ UNCHANGED << details_height, pending, mainpc, nextTask, spawns,
                    installer, downloadsVars, chan, rxAlive, loopVars,
                    workerVars, inputpc >>

\* the terminal has an event for event::read: a key, a resize or another kind
TermEvent ==
    /\ Len(pending) < MaxPending
    /\ \E r \in PollResults \ {"none"} : pending' = Append(pending, r)
    /\ UNCHANGED << details_height, elapsed, mainpc, nextTask, spawns,
                    installer, downloadsVars, chan, rxAlive, loopVars,
                    workerVars, inputpc >>

\* 100-111: one pass of the loop, with the terminal and the clock: poll
\* returns when an event is waiting or the timeout, tick_rate less the time
\* elapsed, has run out; read takes one event; the tick check follows
InputWake ==
    /\ inputpc = "running"
    /\ pending # << >> \/ TickDue(elapsed)
    /\ Iteration(IF pending = << >> THEN "none" ELSE Head(pending),
                 TickDue(elapsed))
    /\ pending' = IF pending = << >> THEN pending ELSE Tail(pending)
    /\ elapsed' = IF TickDue(elapsed) /\ inputpc' = "running" THEN 0
                  ELSE elapsed
    /\ UNCHANGED << details_height, mainpc, nextTask, spawns, installer,
                    downloadsVars, rxAlive, loopVars, workerVars >>

----------------------------------------------------------------------------
(* run, main.rs:116-198.  The loop rests in rx.recv(); one action takes it   *)
(* from one recv to the next: handle the event, then either break or go     *)
(* round to 123-126 and draw unless the event cleared `redraw`.             *)

\* 123-125: terminal.draw(render) when redraw is set
Draw(redraw, fr, inp, comp) == IF redraw THEN Snapshot(inp, comp) ELSE fr

\* 121-126: run is entered with redraw = true and draws the first frame
LoopEnter ==
    /\ looppc = "enter"
    /\ frame' = Draw(TRUE, frame, in_progress, completed)
    /\ looppc' = "recv"
    /\ UNCHANGED << mainVars, downloadsVars, chan, rxAlive, notes, workerVars,
                    inputpc >>

\* 128: rx.recv() returns the oldest event
Receiving(type) ==
    /\ looppc = "recv"
    /\ chan # << >>
    /\ Head(chan).type = type

\* the loop goes round: 123-126, then waits in recv again
Continue(redraw) ==
    /\ looppc' = "recv"
    /\ chan' = Tail(chan)
    /\ rxAlive' = rxAlive
    /\ frame' = Draw(redraw, frame, in_progress', completed')

\* break: run returns; its Receiver is dropped and with it the events queued
Break ==
    /\ looppc' = "exited"
    /\ chan' = << >>
    /\ rxAlive' = FALSE
    /\ frame' = frame

\* another key taken for the quit key
IsQuitOtherKey(key) == key = "x"

\* 130: the key that quits
IsQuit(key) == key = "q"

\* 129-133
OnInput ==
    /\ Receiving("Input")
    /\ UNCHANGED << mainVars, downloadsVars, notes, workerVars, inputpc >>
    /\ IF IsQuit(Head(chan).key) THEN Break ELSE Continue(TRUE)

\* 134-136
OnResize ==
    /\ Receiving("Resize")
    /\ UNCHANGED << mainVars, downloadsVars, notes, workerVars, inputpc >>
    /\ Continue(TRUE)

\* 137
OnTick ==
    /\ Receiving("Tick")
    /\ UNCHANGED << mainVars, downloadsVars, notes, workerVars, inputpc >>
    /\ Continue(TRUE)

\* an update for an id the registry does not hold creates its entry
ApplyUpdateUpsert(inp, id, downloaded, total) ==
    [k \in DOMAIN inp \cup {id} |->
        [id |-> k, name |-> FilenameOf(k), downloaded |-> downloaded,
         total |-> total]]

\* 139-142: the registry after DownloadUpdate(id, downloaded, total)
ApplyUpdate(inp, id, downloaded, total) ==
    IF id \in DOMAIN inp
    THEN [inp EXCEPT ![id].downloaded = downloaded, ![id].total = total]
    ELSE inp

\* 138-144
OnDownloadUpdate ==
    /\ Receiving("DownloadUpdate")
    /\ LET e == Head(chan) IN
        in_progress' = ApplyUpdate(in_progress, e.id, e.downloaded, e.total)
    /\ UNCHANGED << mainVars, completed, errors, notes, workerVars, inputpc >>
    /\ Continue(FALSE)

DoneNote(name) == [kind |-> "done", name |-> name]
ErrorNote(name, msg) == [kind |-> "error", name |-> name, msg |-> msg]
AllCompleteNote == [kind |-> "all complete"]

\* the test made while one download is still in progress
RunCompleteTooEarly(inp) == Cardinality(DOMAIN inp) <= 1

\* 168: the test that ends the run after a DownloadDone
RunComplete(inp) == DOMAIN inp = {}

\* 146-176: DownloadDone for an entry of the registry
CompleteDownload(id) ==
    LET download == in_progress[id]
        rest == MapRemove(in_progress, id) IN
    /\ in_progress' = rest
    /\ completed' = Append(completed, download.name)
    /\ IF RunComplete(rest)
       THEN /\ notes' = notes \o << DoneNote(download.name), AllCompleteNote >>
            /\ Break
       ELSE /\ notes' = Append(notes, DoneNote(download.name))
            /\ Continue(TRUE)

\* 145-178
OnDownloadDone ==
    /\ Receiving("DownloadDone")
    /\ UNCHANGED << mainVars, errors, workerVars, inputpc >>
    /\ IF Head(chan).id \in DOMAIN in_progress
       THEN CompleteDownload(Head(chan).id)
       ELSE /\ UNCHANGED << in_progress, completed, notes >>
            /\ Continue(TRUE)

\* the failure is reported but not recorded
PushErrorNone(errs, name, msg) == errs

\* 192: the errors list after a failure of `name`
PushError(errs, name, msg) == Append(errs, [name |-> name, msg |-> msg])

\* the failure empties the registry instead of removing one entry
FailDownloadClears(id, msg) ==
    LET download == in_progress[id] IN
    /\ in_progress' = << >>
    /\ notes' = Append(notes, ErrorNote(download.name, msg))
    /\ errors' = Append(errors, [name |-> download.name, msg |-> msg])

\* 180-193: DownloadError for an entry of the registry
FailDownload(id, msg) ==
    LET download == in_progress[id] IN
    /\ in_progress' = MapRemove(in_progress, id)
    /\ notes' = Append(notes, ErrorNote(download.name, msg))
    /\ errors' = PushError(errors, download.name, msg)

\* 179-194
OnDownloadError ==
    /\ Receiving("DownloadError")
    /\ UNCHANGED << mainVars, completed, workerVars, inputpc >>
    /\ IF Head(chan).id \in DOMAIN in_progress
       THEN FailDownload(Head(chan).id, Head(chan).msg)
       ELSE UNCHANGED << in_progress, notes, errors >>
    /\ Continue(TRUE)

LoopRecv ==
    \/ OnInput
    \/ OnResize
    \/ OnTick
    \/ OnDownloadUpdate
    \/ OnDownloadDone
    \/ OnDownloadError

----------------------------------------------------------------------------

Main == MainStartTask \/ MainInstall \/ MainReturn
Loop == LoopEnter \/ LoopRecv

Next ==
    \/ MainStartTask
    \/ MainInstall
    \/ MainReturn
    \/ \E i \in Ids : WorkerResponse(i)
    \/ \E i \in Ids : WorkerRequestErr(i)
    \/ \E i \in Ids : WorkerChunk(i)
    \/ \E i \in Ids : WorkerChunkErr(i)
    \/ \E i \in Ids : WorkerEnd(i)
    \/ InputIteration
    \/ LoopEnter
    \/ OnInput
    \/ OnResize
    \/ OnTick
    \/ OnDownloadUpdate
    \/ OnDownloadDone
    \/ OnDownloadError

Spec == Init /\ [][Next]_vars

\* The events of a download that a Sender could still deliver once the
\* registry no longer holds the download: any value of the Event enum, 22-30,
\* can come out of rx.recv(), 128
StaleEvents(id) ==
    {DownloadUpdate(id, downloaded, total) :
        downloaded \in ChunkLens, total \in ContentLengths}
    \cup {DownloadDone(id)}
    \cup {DownloadError(id, msg) : msg \in StreamErrors}

\* such an event arrives while run is receiving
InjectStale ==
    /\ looppc = "recv"
    /\ Room
    /\ \E id \in Ids \ DOMAIN in_progress : \E e \in StaleEvents(id) :
            chan' = Append(chan, e)
    /\ UNCHANGED << mainVars, downloadsVars, rxAlive, loopVars, workerVars,
                    inputpc >>

InjectNext == Next \/ InjectStale

\* The input thread with the terminal and the clock, main and run; the
\* downloads make no step, so that run receives what the input thread sends
\* and nothing else
InputNext ==
    \/ MainStartTask
    \/ MainInstall
    \/ MainReturn
    \/ Elapse
    \/ TermEvent
    \/ InputWake
    \/ LoopEnter
    \/ OnInput
    \/ OnResize
    \/ OnTick

InputSpec == Init /\ [][InputNext]_vars

\* the program with events for downloads the registry no longer holds
InjectSpec == Init /\ [][InjectNext]_vars

\* The threads of the program all keep running: main and run on the main
\* thread, each spawned task on the runtime, the input thread on its own.
\* A download task of the program never waits for room in the channel, so a
\* task that the model makes wait for room is owed its step once there is
\* room again and again: strong fairness for the tasks.
\* The liveness properties are followed on the terminal without a row for
\* the details.
LiveSpec ==
    /\ InitNoDetails
    /\ [][Next]_vars
    /\ WF_vars(Main)
    /\ WF_vars(Loop)
    /\ \A i \in Ids : SF_vars(Worker(i))
    /\ WF_vars(InputIteration)

TypeOK ==
    /\ details_height \in {NoDetails, FullDetails}
    /\ Len(pending) <= MaxPending
    /\ elapsed \in 0..MaxElapsed
    /\ mainpc \in {"spawn", "install", "run", "returned"}
    /\ nextTask \in 1..(NumTasks + 1)
    /\ looppc \in {"idle", "enter", "recv", "exited"}
    /\ DOMAIN in_progress \subseteq Ids
    /\ rxAlive \in BOOLEAN
    /\ inputpc \in {"running", "panicked", "ended"}
    /\ \A i \in Ids :
        wpc[i] \in {"unspawned", "request", "stream", "done", "failed", "cancelled"}

----------------------------------------------------------------------------
(* Vocabulary of the properties *)

\* the tasks main has registered and spawned so far
Started == {i \in Ids : IndexOf(i) < nextTask}
AllStarted == nextTask > NumTasks

Count(seq, P(_)) == Cardinality({k \in 1..Len(seq) : P(seq[k])})

TimesCompleted(i) == Count(completed, LAMBDA n : n = FilenameOf(i))
TimesErrored(i) == Count(errors, LAMBDA r : r.name = FilenameOf(i))
TimesInProgress(i) == IF i \in DOMAIN in_progress THEN 1 ELSE 0

InCompleted(i) == TimesCompleted(i) > 0
InErrors(i) == TimesErrored(i) > 0
InProgress(i) == i \in DOMAIN in_progress

\* the number of "all downloads completed" lines emitted
FinalCount == Count(notes, LAMBDA n : n = AllCompleteNote)

Exited == looppc = "exited"
\* run returns either on the quit key or after the final line
ExitedByQuit == Exited /\ FinalCount = 0

\* the step in which run receives and handles the head of the channel
RecvStep == looppc = "recv" /\ chan # << >> /\ Len(chan') < Len(chan)
Handles(type) == RecvStep /\ Head(chan).type = type

\* every started download has sent its terminal event
SentDone(i) == wpc[i] = "done"
SentError(i) == wpc[i] = "failed"
AllTerminal == AllStarted /\ \A i \in Ids : SentDone(i) \/ SentError(i)

----------------------------------------------------------------------------
(* C1 *)

\* C1: once every started download has sent its terminal event (DownloadDone
\* or DownloadError, in any order), run eventually returns.
C1_TerminatesWhenAllTerminal == AllTerminal ~> Exited

----------------------------------------------------------------------------
(* C2 *)

\* every started task is in completed, once, and nothing else is recorded
AllCompleted ==
    /\ AllStarted
    /\ \A i \in Ids : TimesCompleted(i) = 1
    /\ Len(completed) = NumTasks
    /\ errors = << >>
    /\ DOMAIN in_progress = {}

\* the DownloadDone being handled is the last one: it leaves every task completed
LastDone == Handles("DownloadDone") /\ AllCompleted'

\* C2: when every started download ends with DownloadDone and no quit key
\* ends the run first, the final line is emitted exactly once, in the step
\* that handles the last DownloadDone, and run returns in that same step
\* with in_progress empty and every started task in completed.
C2_FinalNoticeOnce ==
    /\ [][LastDone => FinalCount = 0 /\ FinalCount' = 1 /\ Exited']_vars
    /\ [][FinalCount' # FinalCount =>
            Handles("DownloadDone") /\ Exited' /\ DOMAIN in_progress' = {}]_vars
    /\ [](AllCompleted => FinalCount = 1 /\ Exited)
    /\ (AllStarted /\ \A i \in Ids : SentDone(i)) ~> (ExitedByQuit \/ AllCompleted)

C2_Witness == AllCompleted /\ Exited /\ FinalCount = 1

----------------------------------------------------------------------------
(* C3 *)

\* C3: the installer is invoked only after run has returned, never while a
\* download is still in progress.
C3_InstallerAfterDownloads ==
    installer # << >> => Exited /\ DOMAIN in_progress = {}

----------------------------------------------------------------------------
(* C4 *)

DownloadsUnchanged == UNCHANGED << in_progress, completed, errors >>

\* C4: Input('q') makes run return on that event, whatever is in progress,
\* with in_progress, completed and errors unchanged and no final line;
\* any other key leaves the three unchanged and the loop running.
C4_QuitKey ==
    [][Handles("Input") =>
         /\ DownloadsUnchanged
         /\ notes' = notes
         /\ IF Head(chan).key = "q" THEN Exited' ELSE looppc' = "recv"]_vars

\* run has returned on the quit key with downloads still in progress
C4_Witness == ExitedByQuit /\ DOMAIN in_progress # {}

----------------------------------------------------------------------------
(* C5 *)

Recorded == Cardinality(DOMAIN in_progress) + Len(completed) + Len(errors)

\* C5: in_progress.len() + completed.len() + errors.len() is the number of
\* tasks registered; from the moment run is entered that is all the tasks.
C5_Conservation ==
    /\ Recorded = Cardinality(Started)
    /\ looppc # "idle" => Recorded = NumTasks

C5_Witness ==
    /\ looppc = "recv"
    /\ DOMAIN in_progress # {}
    /\ completed # << >>
    /\ errors # << >>

----------------------------------------------------------------------------
(* C6 *)

ExactlyOnePlace ==
    \A i \in Started : TimesInProgress(i) + TimesCompleted(i) + TimesErrored(i) = 1

TerminalIsFinal ==
    \A i \in Ids :
        /\ InCompleted(i) => InCompleted(i)' /\ ~InErrors(i)' /\ ~InProgress(i)'
        /\ InErrors(i) => InErrors(i)' /\ ~InCompleted(i)' /\ ~InProgress(i)'

\* C6: every started task is in exactly one of in_progress, completed and
\* errors, once; a completed or errored task stays what it is.
C6_OnePlaceForEver == []ExactlyOnePlace /\ [][TerminalIsFinal]_vars

\* a completed and an errored task, with the loop still handling events
C6_Witness ==
    /\ \E i \in Ids : InCompleted(i)
    /\ \E i \in Ids : InErrors(i)
    /\ chan # << >>
    /\ looppc = "recv"

----------------------------------------------------------------------------
(* C7 *)

RecordedOnce(i) == TimesCompleted(i) + TimesErrored(i) = 1 /\ ~InProgress(i)
AllRecorded == AllStarted /\ \A i \in Ids : RecordedOnce(i)

\* C7: no task is spawned twice, no task is recorded in both terminal
\* collections, run does not return on its own before every task is
\* recorded, and unless the quit key ends the run every started task is
\* eventually recorded in exactly one of them.
C7_EveryTaskRecorded ==
    /\ [](\A i \in Ids : spawns[i] <= 1)
    /\ [](\A i \in Ids : TimesCompleted(i) + TimesErrored(i) <= 1)
    /\ [](Exited /\ ~ExitedByQuit => AllRecorded)
    /\ <>(ExitedByQuit \/ AllRecorded)

\* every task recorded, some done and some failed, the loop still running
C7_Witness == AllRecorded /\ errors # << >> /\ completed # << >> /\ ~Exited

----------------------------------------------------------------------------
(* C8 *)

HandlesErrorOf(i) ==
    /\ Handles("DownloadError")
    /\ Head(chan).id = i
    /\ i \in DOMAIN in_progress

\* C8: DownloadError for a registered id removes that entry only, appends
\* one failure to errors, leaves completed alone, starts no task, and the
\* loop goes on.
C8_ErrorHandled ==
    [][\A i \in Ids : HandlesErrorOf(i) =>
         /\ DOMAIN in_progress' = DOMAIN in_progress \ {i}
         /\ \A j \in DOMAIN in_progress' : in_progress'[j] = in_progress[j]
         /\ Len(errors') = Len(errors) + 1
         /\ SubSeq(errors', 1, Len(errors)) = errors
         /\ errors'[Len(errors')].name = FilenameOf(i)
         /\ completed' = completed
         /\ spawns' = spawns /\ wpc' = wpc
         /\ looppc' = "recv"
         /\ FinalCount' = FinalCount]_vars

\* a failure has been recorded while other downloads are in progress
C8_Witness == errors # << >> /\ DOMAIN in_progress # {} /\ looppc = "recv"

----------------------------------------------------------------------------
(* C9 *)

\* C9 as stated: when the final line has been emitted every started task is
\* in completed, none in errors, none in progress; it is emitted once.
C9_FinalOnlyWhenAllCompleted ==
    FinalCount > 0 => AllCompleted /\ FinalCount = 1

\* C9, amended: when the final line has been emitted no task is in progress
\* and every started task is in completed or in errors; it is emitted once.
C9_FinalOnlyWhenNoneInProgress ==
    FinalCount > 0 => AllRecorded /\ FinalCount = 1

\* the final line was emitted in a run in which a download failed
C9_Witness == FinalCount = 1 /\ errors # << >>

----------------------------------------------------------------------------
(* C10 *)

UpdatesOf(i) ==
    SelectSeq(chan, LAMBDA e : e.type = "DownloadUpdate" /\ e.id = i)

NonDecreasing(seq) ==
    \A k \in 1..Len(seq) - 1 : seq[k].downloaded <= seq[k + 1].downloaded

\* the updates of task i still in the channel carry counts that do not
\* decrease, none below what the registry holds
UpdatesOrdered ==
    \A i \in Ids :
        /\ NonDecreasing(UpdatesOf(i))
        /\ \A k \in 1..Len(UpdatesOf(i)) :
            i \in DOMAIN in_progress =>
                in_progress[i].downloaded <= UpdatesOf(i)[k].downloaded

RegistryGrows ==
    \A i \in DOMAIN in_progress \cap DOMAIN in_progress' :
        /\ in_progress[i].downloaded <= in_progress'[i].downloaded
        /\ in_progress[i].total = in_progress'[i].total =>
            progress(in_progress[i]) <= progress(in_progress'[i])
        /\ in_progress[i].total # in_progress'[i].total => in_progress[i].total = 0

\* C10: the downloaded counts a task reports never decrease, and the loop
\* never replaces the progress of an entry by a smaller one.
C10_ProgressMonotone == []UpdatesOrdered /\ [][RegistryGrows]_vars

\* an entry that has taken two updates, the second larger than the first
C10_Witness == \E i \in DOMAIN in_progress : in_progress[i].downloaded = 2

----------------------------------------------------------------------------
(* C11 *)

InFlight == Cardinality(DOMAIN in_progress)

\* the largest pool the claim allows: smaller than the number of tasks
PoolSize == NumTasks - 1

-----------------------------------------------------------------------------
(* C12 *)

\* the task of download i is between its spawn and its return
Running(i) == wpc[i] \in {"request", "stream"}
\* download_with_progress and its wrapper (346-350) have returned
Returned(i) == wpc[i] \in {"done", "failed"}

\* the step puts one event on the channel
PutStep == Len(chan') = Len(chan) + 1 /\ SubSeq(chan', 1, Len(chan)) = chan
LastPut == chan'[Len(chan')]
\* the step in which the task of download i puts an event of kind `type`
Puts(i, type) == PutStep /\ LastPut.type = type /\ LastPut.id = i
PutsTerminal(i) == Puts(i, "DownloadDone") \/ Puts(i, "DownloadError")
\* the step in which the task of download i returns
Returns(i) == Running(i) /\ Returned(i)'

-----------------------------------------------------------------------------
(* C13 *)

\* what render would show of the state the step leaves
FrameOfResult == Snapshot(in_progress', completed')
HandlesOther == RecvStep /\ Head(chan).type # "DownloadUpdate"

\* C13 as stated: after handling any event other than DownloadUpdate run
\* renders the resulting state before it receives again or returns.
C13_RendersAfterEveryOther == [][HandlesOther => frame' = FrameOfResult]_vars

\* What run does render: it draws on entry; after handling an event other than DownloadUpdate
\* that does not end the loop it renders the resulting state before it
\* receives again; after a DownloadUpdate it renders nothing and goes on
\* receiving; the event that ends the loop (the quit key, the last
\* DownloadDone) is followed by no frame.
RendersUnlessUpdateOrExit ==
    /\ [][looppc = "enter" /\ looppc' = "recv" =>
            frame' = Snapshot(in_progress, completed)]_vars
    /\ [][HandlesOther /\ looppc' = "recv" => frame' = FrameOfResult]_vars
    /\ [][Handles("DownloadUpdate") => frame' = frame /\ looppc' = "recv"]_vars
    /\ [][RecvStep /\ looppc' = "exited" => frame' = frame]_vars

\* run waits for the next event with the screen behind the registry: an
\* update has changed a gauge that is drawn and no frame has followed
StaleFrame ==
    /\ looppc = "recv"
    /\ frame.gauges # Snapshot(in_progress, completed).gauges

-----------------------------------------------------------------------------
(* C14 *)

WorkerEvents == {"DownloadUpdate", "DownloadDone", "DownloadError"}
\* the event at the head of the channel is of a download the registry does
\* not hold
HeadIsStale ==
    /\ chan # << >>
    /\ Head(chan).type \in WorkerEvents
    /\ Head(chan).id \notin DOMAIN in_progress
HandlesStale == RecvStep /\ HeadIsStale

\* C14: a DownloadUpdate, DownloadDone or DownloadError whose id is not in
\* in_progress is ignored: in_progress, completed and errors stay as they
\* are, no line is emitted and run goes on receiving.
C14_StaleIgnored ==
    [][HandlesStale =>
        /\ UNCHANGED << in_progress, completed, errors, notes >>
        /\ looppc' = "recv"
        /\ rxAlive']_vars

\* run is about to receive an event of a download it has already recorded
\* while another download is still in progress
C14_Witness ==
    /\ looppc = "recv"
    /\ HeadIsStale
    /\ DOMAIN in_progress # {}
    /\ errors # << >>

-----------------------------------------------------------------------------
(* C15 *)

\* C15: for every entry of in_progress in every reachable state the progress
\* percentage lies in [0,100]: it is 0 while total is unknown (total = 0),
\* and otherwise downloaded does not exceed total.
C15_ProgressInRange ==
    \A id \in DOMAIN in_progress :
        LET d == in_progress[id] IN
        /\ progress(d) \in 0..100
        /\ d.total = 0 => progress(d) = 0
        /\ d.total # 0 => d.downloaded <= d.total

-----------------------------------------------------------------------------
(* C16 *)

\* the step is a pass of the input thread's loop: it takes an event from the
\* terminal or restarts the clock, or the thread panics
WakeStep ==
    \/ Len(pending') < Len(pending)
    \/ elapsed' < elapsed
    \/ inputpc = "running" /\ inputpc' = "panicked"

\* at least tick_rate has gone by since the last Tick
IntervalElapsed == elapsed >= TickRate

\* what the step has put on the channel
Sent == SubSeq(chan', Len(chan) + 1, Len(chan'))
SentTick == Sent # << >> /\ Sent[Len(Sent)] = Tick
\* the events of the terminal forwarded in order, the kinds not forwarded
\* dropped
ForwardedAll(seq) ==
    [k \in 1..Len(SelectSeq(seq, LAMBDA r : Forwarded(r) # << >>)) |->
        Forwarded(SelectSeq(seq, LAMBDA r : Forwarded(r) # << >>)[k])[1]]
TickIf(due) == IF due THEN << Tick >> ELSE << >>

\* the tick part of C16: a pass made when tick_rate has elapsed sends one
\* Tick, as the last event of the pass, and restarts the clock; a pass made
\* earlier sends none and leaves the clock alone
TickOnTime ==
    /\ IntervalElapsed => SentTick /\ elapsed' = 0
    /\ ~IntervalElapsed => ~SentTick /\ elapsed' = elapsed
    /\ \A k \in 1..Len(Sent) - 1 : Sent[k] # Tick

\* C16 as stated: every pass forwards all the events then available, before
\* the tick check.
C16_ForwardsAllAvailable ==
    [][WakeStep /\ inputpc' = "running" =>
        /\ pending' = << >>
        /\ Sent = ForwardedAll(pending) \o TickIf(IntervalElapsed)
        /\ TickOnTime]_vars

\* C16: every pass of the input thread takes at most one event, the oldest
\* waiting, and forwards it (a key press as Input, a resize as Resize, other
\* kinds dropped) before the tick check; the events behind it wait for the
\* next passes.  A pass made when tick_rate has elapsed since the last Tick
\* sends one Tick and restarts the clock, whatever the input; a pass made
\* earlier sends none.
C16_OneEventThenTick ==
    [][WakeStep /\ inputpc' = "running" =>
        /\ pending # << >> =>
            /\ pending' = Tail(pending)
            /\ Sent = Forwarded(Head(pending)) \o TickIf(IntervalElapsed)
        /\ pending = << >> =>
            /\ pending' = pending
            /\ Sent = TickIf(IntervalElapsed)
        /\ TickOnTime]_vars

\* two events wait at the terminal while the thread is about to make a pass
\* with the tick due and the channel ready to take what it sends
C16_Witness ==
    /\ inputpc = "running"
    /\ Len(pending) >= 2
    /\ IntervalElapsed
    /\ looppc = "recv"
    /\ Room

-----------------------------------------------------------------------------
(* C17 *)

\* C17: every DownloadUpdate, DownloadDone and DownloadError that run
\* receives from a download task is of a download that in_progress holds at
\* that moment, so the branches for an unknown id drop no event of a task.
C17_WorkerEventsKnown ==
    [][\A type \in WorkerEvents :
        Handles(type) => Head(chan).id \in DOMAIN in_progress]_vars

\* run is about to receive the terminal event of the last download in
\* progress, after a completion and a failure of the others
C17_Witness ==
    /\ looppc = "recv"
    /\ chan # << >>
    /\ Head(chan).type \in {"DownloadDone", "DownloadError"}
    /\ DOMAIN in_progress = {Head(chan).id}
    /\ completed # << >>
    /\ errors # << >>

-----------------------------------------------------------------------------
(* C18 *)

\* C18: the total that render shows in the overall gauge, completed.len() +
\* in_progress.len(), is the number of tasks started in every reachable
\* state, and the completed count shown does not exceed it.
C18_TotalIsTasksStarted ==
    LET shown == Snapshot(in_progress, completed) IN
    /\ shown.total_downloads = Cardinality(Started)
    /\ shown.completed_downloads <= shown.total_downloads


=============================================================================
